---- MODULE Spec2Model ----
(***************************************************************************)
(* CalculadoraCO2: the calculation engine (js/calculator.js), its          *)
(* configuration (js/config.js) and the route directory (routes-data.js).  *)
(*                                                                         *)
(* JavaScript numbers are IEEE-754 binary64 values and are modelled as     *)
(* such: every *, /, +, - rounds to the nearest double (ties to even) and  *)
(* Math.round rounds to the nearest integer (ties towards +Infinity).      *)
(* JavaScript strings are sequences of UTF-16 code units.                  *)
(***************************************************************************)
EXTENDS Integers, Sequences, FiniteSets, TLC

VARIABLES
  EMISSION_FACTORS,  \* CONFIG.EMISSION_FACTORS: <<[key, value]>> in insertion order
  CARBON_CREDIT,     \* CONFIG.CARBON_CREDIT
  routes,            \* the route list RoutesDB closes over
  pc,                \* "idle", "called" (a call is running), "returned"
  call,              \* the running or last call: [fn, args]
  result,            \* what the last call returned
  memo,              \* an earlier call and what it returned: [call, result]
  origemInput,       \* #origem: its value
  destinoInput,      \* #destino: its value
  distanciaInput,    \* #distancia: [value, readonly]
  manualCheckbox,    \* #distancia-manual: [checked, changed (a change event fired)]
  helperText,        \* .form-helper: which of its texts it shows
  submitButton,      \* the form's submit button: [disabled, innerHTML, originalText]
  classList,         \* the state of the result sections: "initial", "hidden", "shown"
  timers,            \* the pending setTimeout callbacks, oldest first: <<[distanceKm, transportMode]>>
  rendered,          \* the data the result sections were rendered from, or Undefined
  alerted            \* the message of the alert the last event raised, or ""

\* the distance auto-fill's part of the page, the form submit's part, both
autoFill == <<origemInput, destinoInput, distanciaInput, manualCheckbox, helperText>>
form == <<submitButton, classList, timers, rendered, alerted>>
page == <<autoFill, form>>

vars == <<EMISSION_FACTORS, CARBON_CREDIT, routes, pc, call, result, memo, page>>

(***************************************************************************)
(* Natural numbers of arbitrary size: little-endian sequences of limbs in  *)
(* base 2^15, without leading (high) zero limbs; <<>> is zero.             *)
(***************************************************************************)
Base == 2^15

Max(a, b) == IF a >= b THEN a ELSE b
Min(a, b) == IF a <= b THEN a ELSE b

(***************************************************************************)
(* JavaScript evaluates an operand, an argument or the initialiser of a    *)
(* var once, before it is used.  Strict1 and Strict2 say so: F is applied  *)
(* to the values of its arguments.                                         *)
(***************************************************************************)
Strict1(F(_), a) == CHOOSE r \in {F(x) : x \in {a}} : TRUE

Strict2(F(_, _), a, b) == CHOOSE r \in {F(x, y) : x \in {a}, y \in {b}} : TRUE

RECURSIVE BTrim(_)
BTrim(a) ==
  Strict1(LAMBDA x : IF x = <<>> THEN x
                     ELSE IF x[Len(x)] = 0 THEN BTrim(SubSeq(x, 1, Len(x) - 1)) ELSE x, a)

RECURSIVE BFromInt(_)
BFromInt(n) ==
  Strict1(LAMBDA x : IF x = 0 THEN <<>> ELSE <<x % Base>> \o BFromInt(x \div Base), n)

Limb(a, i) == IF i <= Len(a) THEN a[i] ELSE 0

RECURSIVE BAddC(_, _, _, _)
BAddC(a, b, i, c) ==
  IF i > Len(a) /\ i > Len(b)
  THEN (IF c = 0 THEN <<>> ELSE <<c>>)
  ELSE LET s == Limb(a, i) + Limb(b, i) + c
       IN  <<s % Base>> \o BAddC(a, b, i + 1, s \div Base)

BAdd(a, b) == Strict2(LAMBDA x, y : BAddC(x, y, 1, 0), a, b)

\* a - b for a >= b
RECURSIVE BSubC(_, _, _, _)
BSubC(a, b, i, c) ==
  IF i > Len(a) THEN <<>>
  ELSE LET s == a[i] - Limb(b, i) - c
       IN  IF s < 0 THEN <<s + Base>> \o BSubC(a, b, i + 1, 1)
                    ELSE <<s>> \o BSubC(a, b, i + 1, 0)

BSub(a, b) == Strict2(LAMBDA x, y : BTrim(BSubC(x, y, 1, 0)), a, b)

RECURSIVE BCmpAt(_, _, _)
BCmpAt(a, b, i) ==
  IF i = 0 THEN 0
  ELSE IF a[i] < b[i] THEN -1
  ELSE IF a[i] > b[i] THEN 1
  ELSE BCmpAt(a, b, i - 1)

\* -1, 0 or 1 as a < b, a = b, a > b
BCmp(a, b) ==
  Strict2(LAMBDA x, y : IF Len(x) < Len(y) THEN -1
                        ELSE IF Len(x) > Len(y) THEN 1
                        ELSE BCmpAt(x, y, Len(x)), a, b)

RECURSIVE BMulSmallC(_, _, _, _)
BMulSmallC(a, k, i, c) ==
  IF i > Len(a) THEN (IF c = 0 THEN <<>> ELSE <<c>>)
  ELSE LET s == a[i] * k + c
       IN  <<s % Base>> \o BMulSmallC(a, k, i + 1, s \div Base)

\* a * k for a limb 0 <= k < Base
BMulSmall(a, k) ==
  Strict2(LAMBDA x, y : IF y = 0 THEN <<>> ELSE BMulSmallC(x, y, 1, 0), a, k)

BShiftLimbs(a, n) ==
  Strict1(LAMBDA x : IF x = <<>> THEN x ELSE [i \in 1..n |-> 0] \o x, a)

RECURSIVE BMulAt(_, _, _)
BMulAt(a, b, j) ==
  IF j > Len(b) THEN <<>>
  ELSE BAdd(BMulSmall(a, b[j]), BShiftLimbs(BMulAt(a, b, j + 1), 1))

BMul(a, b) ==
  Strict2(LAMBDA x, y : IF x = <<>> \/ y = <<>> THEN <<>> ELSE BMulAt(x, y, 1), a, b)

RECURSIVE IntBits(_)
IntBits(n) == IF n = 0 THEN 0 ELSE 1 + IntBits(n \div 2)

\* number of significant bits
BBits(a) ==
  Strict1(LAMBDA x : IF x = <<>> THEN 0 ELSE 15 * (Len(x) - 1) + IntBits(x[Len(x)]), a)

\* a * 2^s
BShl(a, s) == Strict1(LAMBDA t : BShiftLimbs(BMulSmall(a, 2^(t % 15)), t \div 15), s)

\* floor(a / 2^s)
BShr(a, s) ==
  Strict2(LAMBDA x, t :
            LET q == t \div 15
                r == t % 15
                n == Len(x) - q
            IN  IF n <= 0 THEN <<>>
                ELSE BTrim([i \in 1..n |->
                       (x[i + q] \div 2^r) + (Limb(x, i + q + 1) % 2^r) * 2^(15 - r)]),
          a, s)

\* bit i (bit 0 is the lowest) of a
BBit(a, i) ==
  Strict2(LAMBDA x, j : (Limb(x, (j \div 15) + 1) \div 2^(j % 15)) % 2, a, i)

\* whether the s lowest bits of a are all zero
BLowZero(a, s) ==
  Strict2(LAMBDA x, t : /\ \A i \in 1..Min(t \div 15, Len(x)) : x[i] = 0
                        /\ Limb(x, (t \div 15) + 1) % 2^(t % 15) = 0, a, s)

RECURSIVE IntTrailingZeros(_)
IntTrailingZeros(n) == IF n % 2 = 1 THEN 0 ELSE 1 + IntTrailingZeros(n \div 2)

RECURSIVE BTrailingZerosAt(_, _)
BTrailingZerosAt(a, i) ==
  IF a[i] = 0 THEN 15 + BTrailingZerosAt(a, i + 1) ELSE IntTrailingZeros(a[i])

\* number of trailing zero bits of a # 0
BTrailingZeros(a) == Strict1(LAMBDA x : BTrailingZerosAt(x, 1), a)

\* the digit q in 0..Base-1 with q*d <= r < (q+1)*d, found bit by bit from above
RECURSIVE BDigit(_, _, _, _)
BDigit(r, d, q, b) ==
  IF b < 0 THEN q
  ELSE Strict1(LAMBDA q2 : BDigit(r, d, q2, b - 1),
               IF BCmp(BMulSmall(d, q + 2^b), r) <= 0 THEN q + 2^b ELSE q)

\* long division of n by d # 0, limb by limb from the top: <<quotient, remainder>>
RECURSIVE BDivModAt(_, _, _, _, _)
BDivModAt(n, d, i, q, r) ==
  IF i = 0 THEN <<BTrim(q), r>>
  ELSE Strict1(LAMBDA r1 :
         Strict1(LAMBDA g :
           Strict2(LAMBDA q2, r2 : BDivModAt(n, d, i - 1, q2, r2),
                   <<g>> \o q, BSub(r1, BMulSmall(d, g))),
           IF BCmp(r1, d) < 0 THEN 0 ELSE BDigit(r1, d, 0, 14)),
         BTrim(<<n[i]>> \o r))

BDivMod(n, d) == Strict2(LAMBDA x, y : BDivModAt(x, y, Len(x), <<>>, <<>>), n, d)

(***************************************************************************)
(* IEEE-754 binary64 values (the JavaScript Number type).  A finite value  *)
(* is (-1)^neg * m * 2^e with m odd (or m = 0, e = 0): every double has    *)
(* exactly one such record, so = on records is === on finite numbers.      *)
(***************************************************************************)
Precision == 52 + 1

NaN         == [k |-> "nan"]
Infinity    == [k |-> "inf", neg |-> FALSE]
NegInfinity == [k |-> "inf", neg |-> TRUE]
Zero        == [k |-> "num", neg |-> FALSE, m |-> <<>>, e |-> 0]

IsFinite(x) == x.k = "num"
IsZero(x)   == Strict1(LAMBDA v : v.k = "num" /\ v.m = <<>>, x)

\* the double nearest to (-1)^neg * n * 2^e (plus a little more if sticky), ties to even
PackBits(neg, n, e, sticky, s) ==
  Strict1(LAMBDA q :
    Strict1(LAMBDA m :
      Strict1(LAMBDA t :
        [k |-> "num", neg |-> neg, m |-> BShr(m, t), e |-> e + Max(s, 0) + t],
        BTrailingZeros(m)),
      IF /\ s > 0
         /\ BBit(n, s - 1) = 1
         /\ (sticky \/ ~BLowZero(n, s - 1) \/ BBit(q, 0) = 1)
      THEN BAdd(q, <<1>>) ELSE q),
    IF s > 0 THEN BShr(n, s) ELSE n)

Pack(neg, n, e, sticky) ==
  Strict2(LAMBDA n1, e1 :
            IF n1 = <<>> THEN Zero
            ELSE Strict2(LAMBDA neg1, s : PackBits(neg1, n1, e1, sticky, s),
                         neg, BBits(n1) - Precision),
          n, e)

FromInt(n) ==
  Strict1(LAMBDA i : IF i < 0 THEN Pack(TRUE, BFromInt(-i), 0, FALSE)
                              ELSE Pack(FALSE, BFromInt(i), 0, FALSE), n)

FNeg(a) == Strict1(LAMBDA x : IF x.k = "nan" THEN x ELSE [x EXCEPT !.neg = ~x.neg], a)

FMul(a, b) ==
  Strict2(LAMBDA x, y :
    IF x.k = "nan" \/ y.k = "nan" THEN NaN
    ELSE IF x.k = "inf" \/ y.k = "inf"
         THEN (IF IsZero(x) \/ IsZero(y) THEN NaN
               ELSE [k |-> "inf", neg |-> (x.neg # y.neg)])
    ELSE Pack(x.neg # y.neg, BMul(x.m, y.m), x.e + y.e, FALSE),
    a, b)

\* x / y for finite x # 0, y # 0: the quotient of the significands to Precision + 2
\* bits and more, the remainder as the sticky bit
DivFinite(x, y) ==
  Strict1(LAMBDA sh :
    Strict1(LAMBDA qr : Pack(x.neg # y.neg, qr[1], x.e - y.e - sh, qr[2] # <<>>),
            BDivMod(BShl(x.m, sh), y.m)),
    Max(0, Precision + 2 + BBits(y.m) - BBits(x.m)))

FDiv(a, b) ==
  Strict2(LAMBDA x, y :
    IF x.k = "nan" \/ y.k = "nan" THEN NaN
    ELSE IF x.k = "inf"
         THEN (IF y.k = "inf" THEN NaN ELSE [k |-> "inf", neg |-> (x.neg # y.neg)])
    ELSE IF y.k = "inf" THEN Zero
    ELSE IF IsZero(y)
         THEN (IF IsZero(x) THEN NaN ELSE [k |-> "inf", neg |-> (x.neg # y.neg)])
    ELSE IF IsZero(x) THEN Zero
    ELSE DivFinite(x, y),
    a, b)

\* x + y for finite x, y
AddFinite(x, y) ==
  Strict1(LAMBDA e0 :
    Strict2(LAMBDA a, b :
      Strict1(LAMBDA c :
        IF x.neg = y.neg THEN Pack(x.neg, BAdd(a, b), e0, FALSE)
        ELSE IF c = 0 THEN Zero
        ELSE IF c > 0 THEN Pack(x.neg, BSub(a, b), e0, FALSE)
        ELSE Pack(y.neg, BSub(b, a), e0, FALSE),
        BCmp(a, b)),
      BShl(x.m, x.e - e0), BShl(y.m, y.e - e0)),
    Min(x.e, y.e))

FAdd(a, b) ==
  Strict2(LAMBDA x, y :
    IF x.k = "nan" \/ y.k = "nan" THEN NaN
    ELSE IF x.k = "inf"
         THEN (IF y.k = "inf" /\ x.neg # y.neg THEN NaN ELSE x)
    ELSE IF y.k = "inf" THEN y
    ELSE IF IsZero(x) THEN (IF IsZero(y) THEN Zero ELSE y)
    ELSE IF IsZero(y) THEN x
    ELSE AddFinite(x, y),
    a, b)

FSub(x, y) == FAdd(x, FNeg(y))

\* x < y
FLess(a, b) ==
  Strict2(LAMBDA x, y :
    IF x.k = "nan" \/ y.k = "nan" \/ x = y THEN FALSE
    ELSE Strict1(LAMBDA d : d.k # "nan" /\ d.neg /\ ~IsZero(d), FSub(x, y)),
    a, b)

\* Math.round: the nearest integer, ties towards +Infinity
MathRound(a) ==
  Strict1(LAMBDA x :
    IF x.k # "num" \/ x.e >= 0 THEN x
    ELSE LET n    == BShr(x.m, -x.e)
             half == BBit(x.m, -x.e - 1) = 1
             more == ~BLowZero(x.m, -x.e - 1)
             up   == IF x.neg THEN half /\ more ELSE half
         IN  Pack(x.neg, IF up THEN BAdd(n, <<1>>) ELSE n, 0, FALSE),
    a)

\* the Number a decimal literal n / 10^p denotes
Dec(n, p) == FDiv(FromInt(n), FromInt(10^p))
(***************************************************************************)
(* JavaScript values other than numbers, and typeof.                       *)
(***************************************************************************)
Undefined == [k |-> "undefined"]
Null      == [k |-> "null"]
Str(s)    == [k |-> "str", s |-> s]

TypeOf(v) ==
  IF v.k \in {"num", "nan", "inf"} THEN "number"
  ELSE IF v.k = "str" THEN "string"
  ELSE IF v.k = "undefined" THEN "undefined"
  ELSE "object"

\* !v
Falsy(v) ==
  \/ v.k \in {"undefined", "null", "nan"}
  \/ IsZero(v)
  \/ v.k = "str" /\ v.s = <<>>

\* String(v), as code units, for the values the model passes as strings
String(v) ==
  IF v.k = "str" THEN v.s
  ELSE IF v.k = "undefined" THEN <<117, 110, 100, 101, 102, 105, 110, 101, 100>>
  ELSE <<110, 117, 108, 108>>

\* WhiteSpace and LineTerminator code units, which String.prototype.trim strips
WhiteSpace ==
  {9, 10, 11, 12, 13, 32, 160, 5760, 8232, 8233, 8239, 8287, 12288, 65279}
    \cup (8192..8202)

RECURSIVE TrimStart(_)
TrimStart(s) ==
  IF s # <<>> /\ Head(s) \in WhiteSpace THEN TrimStart(Tail(s)) ELSE s

RECURSIVE TrimEnd(_)
TrimEnd(s) ==
  IF s # <<>> /\ s[Len(s)] \in WhiteSpace
  THEN TrimEnd(SubSeq(s, 1, Len(s) - 1)) ELSE s

\* String.prototype.trim
Trim(s) == TrimEnd(TrimStart(s))

\* the lower-case mapping of one code unit of Basic Latin or Latin-1 Supplement
LowerUnit(c) ==
  IF c \in (65..90) \cup (192..214) \cup (216..222) THEN c + 32 ELSE c

\* String.prototype.toLowerCase
ToLowerCase(s) == [i \in 1..Len(s) |-> LowerUnit(s[i])]

(***************************************************************************)
(* js/config.js: the configuration objects.                                *)
(***************************************************************************)
InitialEmissionFactors == <<
  [key |-> <<98, 105, 99, 105, 99, 108, 101, 116, 97>>, value |-> Zero],       \* bicicleta: 0
  [key |-> <<99, 97, 114, 114, 111>>,                   value |-> Dec(12, 2)], \* carro: 0.12
  [key |-> <<111, 110, 105, 98, 117, 115>>,             value |-> Dec(89, 3)], \* onibus: 0.089
  [key |-> <<99, 97, 109, 105, 110, 104, 97, 111>>,     value |-> Dec(96, 2)]  \* caminhao: 0.96
>>

InitialCarbonCredit ==
  [KG_PER_CREDIT |-> FromInt(1000),
   PRICE_MIN_BRL |-> FromInt(50),
   PRICE_MAX_BRL |-> FromInt(150)]

\* obj.hasOwnProperty(key)
HasOwnProperty(obj, key) == \E i \in 1..Len(obj) : obj[i].key = key

\* obj[key] for an own property
Get(obj, key) == obj[CHOOSE i \in 1..Len(obj) : obj[i].key = key].value

(***************************************************************************)
(* js/calculator.js                                                        *)
(***************************************************************************)
\* Math.round(x * 100) / 100
Round2(x) == FDiv(MathRound(FMul(x, FromInt(100))), FromInt(100))

\* Math.round(x * 10000) / 10000
Round4(x) == FDiv(MathRound(FMul(x, FromInt(10000))), FromInt(10000))

calculateEmission(distanceKm, transportMode) ==
  IF TypeOf(distanceKm) # "number" \/ FLess(distanceKm, Zero) THEN Zero
  ELSE LET mode == ToLowerCase(Trim(String(transportMode)))
       IN  IF ~HasOwnProperty(EMISSION_FACTORS, mode) THEN Zero
           ELSE LET factor   == Get(EMISSION_FACTORS, mode)
                    emission == FMul(distanceKm, factor)
                IN  Round2(emission)

\* the comparator of results.sort: a.emission - b.emission
CompareEmission(a, b) == FSub(a.emission, b.emission)

\* a sort that is not stable: it moves an entry before the entries equal to it
RECURSIVE InsertBeforeEqual(_, _)
InsertBeforeEqual(sorted, x) ==
  Strict1(LAMBDA s :
    IF s # <<>> /\ ~FLess(CompareEmission(s[Len(s)], x), Zero)
    THEN Append(InsertBeforeEqual(SubSeq(s, 1, Len(s) - 1), x), s[Len(s)])
    ELSE Append(s, x),
    sorted)

\* Array.prototype.sort keeps a before b unless the comparator is > 0 (NaN counts as 0)
RECURSIVE Insert(_, _)
Insert(sorted, x) ==
  Strict1(LAMBDA s :
    IF s # <<>> /\ FLess(Zero, CompareEmission(s[Len(s)], x))
    THEN Append(Insert(SubSeq(s, 1, Len(s) - 1), x), s[Len(s)])
    ELSE Append(s, x),
    sorted)

\* Array.prototype.sort (stable) under CompareEmission
RECURSIVE Sort(_)
Sort(a) ==
  Strict1(LAMBDA s :
    IF s = <<>> THEN s ELSE Insert(Sort(SubSeq(s, 1, Len(s) - 1)), s[Len(s)]),
    a)

\* a percentage that is left as a ratio
PercentageUnscaled(emission, carEmission) == FDiv(emission, carEmission)

\* (emission / carEmission) * 100
PercentageVsCar(emission, carEmission) ==
  FMul(FDiv(emission, carEmission), FromInt(100))

calculateAllModes(distanceKm) ==
  IF TypeOf(distanceKm) # "number" \/ FLess(distanceKm, Zero) THEN <<>>
  ELSE Strict1(LAMBDA car0 :
         Strict1(LAMBDA carEmission :
           Sort([i \in 1..Len(EMISSION_FACTORS) |->
                  Strict2(LAMBDA mode, emission :
                    LET percentageVsCar == PercentageVsCar(emission, carEmission)
                    IN  [mode            |-> mode,
                         emission        |-> emission,
                         percentageVsCar |-> Round2(percentageVsCar)],
                    EMISSION_FACTORS[i].key,
                    calculateEmission(distanceKm, Str(EMISSION_FACTORS[i].key)))]),
           IF car0 = Zero THEN Dec(1, 3) ELSE car0),
         calculateEmission(distanceKm, Str(<<99, 97, 114, 114, 111>>)))

calculateSavings(emission0, baselineEmission0) ==
  LET emission ==
        IF TypeOf(emission0) # "number" \/ FLess(emission0, Zero)
        THEN Zero ELSE emission0
      baselineEmission ==
        IF TypeOf(baselineEmission0) # "number" \/ FLess(baselineEmission0, Zero)
        THEN Zero ELSE baselineEmission0
  IN  Strict1(LAMBDA saved0 :
        Strict1(LAMBDA savedKg :
          LET percentage == IF FLess(Zero, baselineEmission)
                            THEN FMul(FDiv(savedKg, baselineEmission), FromInt(100))
                            ELSE Zero
          IN  [savedKg |-> Round2(savedKg), percentage |-> Round2(percentage)],
          IF FLess(saved0, Zero) THEN Zero ELSE saved0),
        FSub(baselineEmission, emission))

calculateCarbonCredits(emissionKg) ==
  IF TypeOf(emissionKg) # "number" \/ FLess(emissionKg, Zero) THEN Zero
  ELSE LET kgPerCredit == CARBON_CREDIT.KG_PER_CREDIT
           credits     == FDiv(emissionKg, kgPerCredit)
       IN  Round4(credits)

estimateCreditPrice(credits) ==
  IF TypeOf(credits) # "number" \/ FLess(credits, Zero)
  THEN [min |-> Zero, max |-> Zero, average |-> Zero]
  ELSE LET priceMin == CARBON_CREDIT.PRICE_MIN_BRL
           priceMax == CARBON_CREDIT.PRICE_MAX_BRL
       IN  Strict2(LAMBDA min, max :
             LET average == FDiv(FAdd(min, max), FromInt(2))
             IN  [min |-> Round2(min), max |-> Round2(max), average |-> Round2(average)],
             FMul(credits, priceMin), FMul(credits, priceMax))

(***************************************************************************)
(* routes-data.js: the route list and RoutesDB.findDistance.               *)
(***************************************************************************)
InitialRoutes == <<
    \* 1: Sao Paulo, SP -> Rio de Janeiro, RJ
    [origin |-> <<83, 227, 111, 32, 80, 97, 117, 108, 111, 44, 32, 83, 80>>,
     destination |-> <<82, 105, 111, 32, 100, 101, 32, 74, 97, 110, 101, 105, 114, 111, 44, 32, 82, 74>>,
     distanceKM |-> FromInt(430)],
    \* 2: Sao Paulo, SP -> Brasilia, DF
    [origin |-> <<83, 227, 111, 32, 80, 97, 117, 108, 111, 44, 32, 83, 80>>,
     destination |-> <<66, 114, 97, 115, 237, 108, 105, 97, 44, 32, 68, 70>>,
     distanceKM |-> FromInt(1015)],
    \* 3: Rio de Janeiro, RJ -> Brasilia, DF
    [origin |-> <<82, 105, 111, 32, 100, 101, 32, 74, 97, 110, 101, 105, 114, 111, 44, 32, 82, 74>>,
     destination |-> <<66, 114, 97, 115, 237, 108, 105, 97, 44, 32, 68, 70>>,
     distanceKM |-> FromInt(1148)],
    \* 4: Sao Paulo, SP -> Campinas, SP
    [origin |-> <<83, 227, 111, 32, 80, 97, 117, 108, 111, 44, 32, 83, 80>>,
     destination |-> <<67, 97, 109, 112, 105, 110, 97, 115, 44, 32, 83, 80>>,
     distanceKM |-> FromInt(95)],
    \* 5: Rio de Janeiro, RJ -> Niteroi, RJ
    [origin |-> <<82, 105, 111, 32, 100, 101, 32, 74, 97, 110, 101, 105, 114, 111, 44, 32, 82, 74>>,
     destination |-> <<78, 105, 116, 101, 114, 243, 105, 44, 32, 82, 74>>,
     distanceKM |-> FromInt(13)],
    \* 6: Belo Horizonte, MG -> Ouro Preto, MG
    [origin |-> <<66, 101, 108, 111, 32, 72, 111, 114, 105, 122, 111, 110, 116, 101, 44, 32, 77, 71>>,
     destination |-> <<79, 117, 114, 111, 32, 80, 114, 101, 116, 111, 44, 32, 77, 71>>,
     distanceKM |-> FromInt(100)],
    \* 7: Porto Alegre, RS -> Florianopolis, SC
    [origin |-> <<80, 111, 114, 116, 111, 32, 65, 108, 101, 103, 114, 101, 44, 32, 82, 83>>,
     destination |-> <<70, 108, 111, 114, 105, 97, 110, 243, 112, 111, 108, 105, 115, 44, 32, 83, 67>>,
     distanceKM |-> FromInt(460)],
    \* 8: Porto Alegre, RS -> Curitiba, PR
    [origin |-> <<80, 111, 114, 116, 111, 32, 65, 108, 101, 103, 114, 101, 44, 32, 82, 83>>,
     destination |-> <<67, 117, 114, 105, 116, 105, 98, 97, 44, 32, 80, 82>>,
     distanceKM |-> FromInt(710)],
    \* 9: Curitiba, PR -> Florianopolis, SC
    [origin |-> <<67, 117, 114, 105, 116, 105, 98, 97, 44, 32, 80, 82>>,
     destination |-> <<70, 108, 111, 114, 105, 97, 110, 243, 112, 111, 108, 105, 115, 44, 32, 83, 67>>,
     distanceKM |-> FromInt(300)],
    \* 10: Salvador, BA -> Feira de Santana, BA
    [origin |-> <<83, 97, 108, 118, 97, 100, 111, 114, 44, 32, 66, 65>>,
     destination |-> <<70, 101, 105, 114, 97, 32, 100, 101, 32, 83, 97, 110, 116, 97, 110, 97, 44, 32, 66, 65>>,
     distanceKM |-> FromInt(100)],
    \* 11: Salvador, BA -> Recife, PE
    [origin |-> <<83, 97, 108, 118, 97, 100, 111, 114, 44, 32, 66, 65>>,
     destination |-> <<82, 101, 99, 105, 102, 101, 44, 32, 80, 69>>,
     distanceKM |-> FromInt(800)],
    \* 12: Recife, PE -> Joao Pessoa, PB
    [origin |-> <<82, 101, 99, 105, 102, 101, 44, 32, 80, 69>>,
     destination |-> <<74, 111, 227, 111, 32, 80, 101, 115, 115, 111, 97, 44, 32, 80, 66>>,
     distanceKM |-> FromInt(120)],
    \* 13: Fortaleza, CE -> Natal, RN
    [origin |-> <<70, 111, 114, 116, 97, 108, 101, 122, 97, 44, 32, 67, 69>>,
     destination |-> <<78, 97, 116, 97, 108, 44, 32, 82, 78>>,
     distanceKM |-> FromInt(530)],
    \* 14: Fortaleza, CE -> Sao Luis, MA
    [origin |-> <<70, 111, 114, 116, 97, 108, 101, 122, 97, 44, 32, 67, 69>>,
     destination |-> <<83, 227, 111, 32, 76, 117, 237, 115, 44, 32, 77, 65>>,
     distanceKM |-> FromInt(870)],
    \* 15: Manaus, AM -> Belem, PA
    [origin |-> <<77, 97, 110, 97, 117, 115, 44, 32, 65, 77>>,
     destination |-> <<66, 101, 108, 233, 109, 44, 32, 80, 65>>,
     distanceKM |-> FromInt(1740)],
    \* 16: Belem, PA -> Macapa, AP
    [origin |-> <<66, 101, 108, 233, 109, 44, 32, 80, 65>>,
     destination |-> <<77, 97, 99, 97, 112, 225, 44, 32, 65, 80>>,
     distanceKM |-> FromInt(520)],
    \* 17: Goiania, GO -> Brasilia, DF
    [origin |-> <<71, 111, 105, 226, 110, 105, 97, 44, 32, 71, 79>>,
     destination |-> <<66, 114, 97, 115, 237, 108, 105, 97, 44, 32, 68, 70>>,
     distanceKM |-> FromInt(200)],
    \* 18: Goiania, GO -> Uberlandia, MG
    [origin |-> <<71, 111, 105, 226, 110, 105, 97, 44, 32, 71, 79>>,
     destination |-> <<85, 98, 101, 114, 108, 226, 110, 100, 105, 97, 44, 32, 77, 71>>,
     distanceKM |-> FromInt(450)],
    \* 19: Uberlandia, MG -> Ribeirao Preto, SP
    [origin |-> <<85, 98, 101, 114, 108, 226, 110, 100, 105, 97, 44, 32, 77, 71>>,
     destination |-> <<82, 105, 98, 101, 105, 114, 227, 111, 32, 80, 114, 101, 116, 111, 44, 32, 83, 80>>,
     distanceKM |-> FromInt(320)],
    \* 20: Ribeirao Preto, SP -> Sao Jose do Rio Preto, SP
    [origin |-> <<82, 105, 98, 101, 105, 114, 227, 111, 32, 80, 114, 101, 116, 111, 44, 32, 83, 80>>,
     destination |-> <<83, 227, 111, 32, 74, 111, 115, 233, 32, 100, 111, 32, 82, 105, 111, 32, 80, 114, 101, 116, 111, 44, 32, 83, 80>>,
     distanceKM |-> FromInt(220)],
    \* 21: Maceio, AL -> Aracaju, SE
    [origin |-> <<77, 97, 99, 101, 105, 243, 44, 32, 65, 76>>,
     destination |-> <<65, 114, 97, 99, 97, 106, 117, 44, 32, 83, 69>>,
     distanceKM |-> FromInt(270)],
    \* 22: Teresina, PI -> Sao Luis, MA
    [origin |-> <<84, 101, 114, 101, 115, 105, 110, 97, 44, 32, 80, 73>>,
     destination |-> <<83, 227, 111, 32, 76, 117, 237, 115, 44, 32, 77, 65>>,
     distanceKM |-> FromInt(320)],
    \* 23: Campo Grande, MS -> Cuiaba, MT
    [origin |-> <<67, 97, 109, 112, 111, 32, 71, 114, 97, 110, 100, 101, 44, 32, 77, 83>>,
     destination |-> <<67, 117, 105, 97, 98, 225, 44, 32, 77, 84>>,
     distanceKM |-> FromInt(700)],
    \* 24: Cuiaba, MT -> Porto Velho, RO
    [origin |-> <<67, 117, 105, 97, 98, 225, 44, 32, 77, 84>>,
     destination |-> <<80, 111, 114, 116, 111, 32, 86, 101, 108, 104, 111, 44, 32, 82, 79>>,
     distanceKM |-> FromInt(780)],
    \* 25: Belem, PA -> Manaus, AM
    [origin |-> <<66, 101, 108, 233, 109, 44, 32, 80, 65>>,
     destination |-> <<77, 97, 110, 97, 117, 115, 44, 32, 65, 77>>,
     distanceKM |-> FromInt(1740)],
    \* 26: Belo Horizonte, MG -> Rio de Janeiro, RJ
    [origin |-> <<66, 101, 108, 111, 32, 72, 111, 114, 105, 122, 111, 110, 116, 101, 44, 32, 77, 71>>,
     destination |-> <<82, 105, 111, 32, 100, 101, 32, 74, 97, 110, 101, 105, 114, 111, 44, 32, 82, 74>>,
     distanceKM |-> FromInt(440)],
    \* 27: Belo Horizonte, MG -> Sao Paulo, SP
    [origin |-> <<66, 101, 108, 111, 32, 72, 111, 114, 105, 122, 111, 110, 116, 101, 44, 32, 77, 71>>,
     destination |-> <<83, 227, 111, 32, 80, 97, 117, 108, 111, 44, 32, 83, 80>>,
     distanceKM |-> FromInt(586)],
    \* 28: Porto Alegre, RS -> Sao Paulo, SP
    [origin |-> <<80, 111, 114, 116, 111, 32, 65, 108, 101, 103, 114, 101, 44, 32, 82, 83>>,
     destination |-> <<83, 227, 111, 32, 80, 97, 117, 108, 111, 44, 32, 83, 80>>,
     distanceKM |-> FromInt(1120)],
    \* 29: Recife, PE -> Fortaleza, CE
    [origin |-> <<82, 101, 99, 105, 102, 101, 44, 32, 80, 69>>,
     destination |-> <<70, 111, 114, 116, 97, 108, 101, 122, 97, 44, 32, 67, 69>>,
     distanceKM |-> FromInt(815)],
    \* 30: Sao Paulo, SP -> Santos, SP
    [origin |-> <<83, 227, 111, 32, 80, 97, 117, 108, 111, 44, 32, 83, 80>>,
     destination |-> <<83, 97, 110, 116, 111, 115, 44, 32, 83, 80>>,
     distanceKM |-> FromInt(75)],
    \* 31: Campina Grande, PB -> Joao Pessoa, PB
    [origin |-> <<67, 97, 109, 112, 105, 110, 97, 32, 71, 114, 97, 110, 100, 101, 44, 32, 80, 66>>,
     destination |-> <<74, 111, 227, 111, 32, 80, 101, 115, 115, 111, 97, 44, 32, 80, 66>>,
     distanceKM |-> FromInt(120)],
    \* 32: Natal, RN -> Fortaleza, CE
    [origin |-> <<78, 97, 116, 97, 108, 44, 32, 82, 78>>,
     destination |-> <<70, 111, 114, 116, 97, 108, 101, 122, 97, 44, 32, 67, 69>>,
     distanceKM |-> FromInt(535)],
    \* 33: Caxias do Sul, RS -> Porto Alegre, RS
    [origin |-> <<67, 97, 120, 105, 97, 115, 32, 100, 111, 32, 83, 117, 108, 44, 32, 82, 83>>,
     destination |-> <<80, 111, 114, 116, 111, 32, 65, 108, 101, 103, 114, 101, 44, 32, 82, 83>>,
     distanceKM |-> FromInt(130)],
    \* 34: Vitoria, ES -> Belo Horizonte, MG
    [origin |-> <<86, 105, 116, 243, 114, 105, 97, 44, 32, 69, 83>>,
     destination |-> <<66, 101, 108, 111, 32, 72, 111, 114, 105, 122, 111, 110, 116, 101, 44, 32, 77, 71>>,
     distanceKM |-> FromInt(520)],
    \* 35: Campos dos Goytacazes, RJ -> Rio de Janeiro, RJ
    [origin |-> <<67, 97, 109, 112, 111, 115, 32, 100, 111, 115, 32, 71, 111, 121, 116, 97, 99, 97, 122, 101, 115, 44, 32, 82, 74>>,
     destination |-> <<82, 105, 111, 32, 100, 101, 32, 74, 97, 110, 101, 105, 114, 111, 44, 32, 82, 74>>,
     distanceKM |-> FromInt(280)],
    \* 36: Petrolina, PE -> Juazeiro, BA
    [origin |-> <<80, 101, 116, 114, 111, 108, 105, 110, 97, 44, 32, 80, 69>>,
     destination |-> <<74, 117, 97, 122, 101, 105, 114, 111, 44, 32, 66, 65>>,
     distanceKM |-> FromInt(10)]
>>

\* a normalisation that keeps the letter case
_normalizeKeepCase(s) == Trim(String(s))

\* _normalize(s): String(s).trim().toLowerCase()
_normalize(s) == ToLowerCase(Trim(String(s)))

\* a loop that compares each route in its stored direction only
RECURSIVE FindFromForward(_, _, _)
FindFromForward(i, oNorm, dNorm) ==
  IF i > Len(routes) THEN Null
  ELSE LET r == routes[i]
       IN  IF _normalize(Str(r.origin)) = oNorm /\ _normalize(Str(r.destination)) = dNorm
           THEN r.distanceKM
           ELSE FindFromForward(i + 1, oNorm, dNorm)

\* the for loop of findDistance from index i on: the first route that matches
\* in either direction decides
RECURSIVE FindFrom(_, _, _)
FindFrom(i, oNorm, dNorm) ==
  IF i > Len(routes) THEN Null
  ELSE LET r == routes[i]
       IN  IF _normalize(Str(r.origin)) = oNorm /\ _normalize(Str(r.destination)) = dNorm
           THEN r.distanceKM
           ELSE IF _normalize(Str(r.origin)) = dNorm /\ _normalize(Str(r.destination)) = oNorm
           THEN r.distanceKM
           ELSE FindFrom(i + 1, oNorm, dNorm)

\* a lookup that prefers a route stored in the direction of the query
findDistanceDirectFirst(origin, destination) ==
  IF Falsy(origin) \/ Falsy(destination) THEN Null
  ELSE Strict2(LAMBDA oNorm, dNorm :
                 Strict1(LAMBDA direct :
                           IF direct # Null THEN direct
                           ELSE FindFromForward(1, dNorm, oNorm),
                         FindFromForward(1, oNorm, dNorm)),
               _normalize(origin), _normalize(destination))

\* a lookup that reports 0 where no route matches
findDistanceOrZero(origin, destination) ==
  IF Falsy(origin) \/ Falsy(destination) THEN Null
  ELSE Strict2(LAMBDA oNorm, dNorm :
                 Strict1(LAMBDA found : IF found = Null THEN Zero ELSE found,
                         FindFrom(1, oNorm, dNorm)),
               _normalize(origin), _normalize(destination))

findDistance(origin, destination) ==
  IF Falsy(origin) \/ Falsy(destination) THEN Null
  ELSE Strict2(LAMBDA oNorm, dNorm : FindFrom(1, oNorm, dNorm),
               _normalize(origin), _normalize(destination))


(***************************************************************************)
(* a.localeCompare(b, 'pt-BR'): the Unicode collation algorithm with the   *)
(* CLDR root order, which Portuguese does not tailor, for the code units   *)
(* of the city names: space < comma < letters; letters compare first by    *)
(* base letter, then by accent, then by case.                              *)
(***************************************************************************)
\* the unaccented lower-case letter of a letter, any other code unit as it is
BaseLetter(c) ==
  LET l == LowerUnit(c)
  IN  IF l \in 224..229 THEN 97
      ELSE IF l = 231 THEN 99
      ELSE IF l \in 232..235 THEN 101
      ELSE IF l \in 236..239 THEN 105
      ELSE IF l = 241 THEN 110
      ELSE IF l \in 242..246 THEN 111
      ELSE IF l \in 249..252 THEN 117
      ELSE IF l \in {253, 255} THEN 121
      ELSE l

\* primary weight: white space and punctuation sort before the letters
PrimaryWeight(c) ==
  IF c = 32 THEN 1
  ELSE IF c = 44 THEN 2
  ELSE IF BaseLetter(c) \in 97..122 THEN BaseLetter(c)
  ELSE 200 + c

\* secondary weight: none < acute < grave < circumflex < ring < diaeresis
\* < tilde < cedilla
SecondaryWeight(c) ==
  LET l == LowerUnit(c)
  IN  IF l \in {225, 233, 237, 243, 250, 253} THEN 1
      ELSE IF l \in {224, 232, 236, 242, 249} THEN 2
      ELSE IF l \in {226, 234, 238, 244, 251} THEN 3
      ELSE IF l = 229 THEN 4
      ELSE IF l \in {228, 235, 239, 246, 252, 255} THEN 5
      ELSE IF l \in {227, 241, 245} THEN 6
      ELSE IF l = 231 THEN 7
      ELSE 0

\* tertiary weight: lower case < upper case
TertiaryWeight(c) == IF LowerUnit(c) # c THEN 1 ELSE 0

\* the weights of a string at one level of the collation
Weights(s, level) ==
  [i \in 1..Len(s) |-> IF level = 1 THEN PrimaryWeight(s[i])
                       ELSE IF level = 2 THEN SecondaryWeight(s[i])
                       ELSE TertiaryWeight(s[i])]

\* lexicographic comparison of two sequences of weights: -1, 0 or 1
CompareWeights(x, y) ==
  LET differ == {i \in 1..Min(Len(x), Len(y)) : x[i] # y[i]}
  IN  IF differ = {}
      THEN (IF Len(x) < Len(y) THEN -1 ELSE IF Len(x) > Len(y) THEN 1 ELSE 0)
      ELSE LET i == CHOOSE k \in differ : \A j \in differ : k <= j
           IN  IF x[i] < y[i] THEN -1 ELSE 1

\* the sort key of a string: its weights level after level; 0 ends a level
SortKey(s) ==
  Weights(s, 1) \o <<0>> \o Weights(s, 2) \o <<0>> \o Weights(s, 3)

LocaleCompare(a, b) == CompareWeights(SortKey(a), SortKey(b))

\* the origin and destination of every route, in list order
EndPoints ==
  [i \in 1..(2 * Len(routes)) |->
     IF i % 2 = 1 THEN routes[(i + 1) \div 2].origin ELSE routes[i \div 2].destination]

\* new Set(), citiesSet.add in the for loop, Array.from: a Set keeps the
\* first occurrence of each value, in insertion order
CitiesSet ==
  Strict1(LAMBDA all :
            LET first == SelectSeq([i \in 1..Len(all) |-> i],
                                   LAMBDA i : \A j \in 1..(i - 1) : all[j] # all[i])
            IN  SubSeq([k \in 1..Len(first) |-> all[first[k]]], 1, Len(first)),
          SubSeq(EndPoints, 1, 2 * Len(routes)))

\* an array that is left as it is
LeaveUnsorted(a) == a

\* Array.prototype.sort (stable) under a.localeCompare(b, 'pt-BR'): a[i]
\* goes behind the elements that compare lower and the equal ones before it
SortCities(a) ==
  Strict1(LAMBDA key :
    Strict1(LAMBDA rank :
              SubSeq([k \in 1..Len(a) |-> a[CHOOSE i \in 1..Len(a) : rank[i] = k]],
                     1, Len(a)),
            SubSeq([i \in 1..Len(a) |->
                      1 + Cardinality({j \in 1..Len(a) :
                             \/ CompareWeights(key[j], key[i]) < 0
                             \/ CompareWeights(key[j], key[i]) = 0 /\ j < i})],
                   1, Len(a))),
    SubSeq([i \in 1..Len(a) |-> SortKey(a[i])], 1, Len(a)))

getAllCities == SortCities(CitiesSet)

(***************************************************************************)
(* The page: parseFloat and Number-to-String, which carry a distance       *)
(* between the distance field and the Calculator.                          *)
(***************************************************************************)
IsDigit(c) == c \in 48..57

\* the length of the longest prefix of s made of digits
RECURSIVE DigitsPrefix(_)
DigitsPrefix(s) ==
  IF s # <<>> /\ IsDigit(Head(s)) THEN 1 + DigitsPrefix(Tail(s)) ELSE 0

\* the natural number a sequence of digits denotes
RECURSIVE DigitsValue(_)
DigitsValue(ds) ==
  IF ds = <<>> THEN <<>>
  ELSE BAdd(BMulSmall(DigitsValue(SubSeq(ds, 1, Len(ds) - 1)), 10),
            BFromInt(ds[Len(ds)] - 48))

\* 10^n as a natural number
RECURSIVE BPow10(_)
BPow10(n) == IF n = 0 THEN <<1>> ELSE BMulSmall(BPow10(n - 1), 10)

\* the Number nearest to n * 10^k, n a natural number
DecimalValue(neg, n, k) ==
  IF n = <<>> THEN Zero
  ELSE IF k >= 0 THEN Pack(neg, BMul(n, BPow10(k)), 0, FALSE)
  ELSE DivFinite([k |-> "num", neg |-> neg, m |-> n, e |-> 0],
                 [k |-> "num", neg |-> FALSE, m |-> BPow10(-k), e |-> 0])

\* the exponent part of a decimal literal at the head of s: its value, or 0
ExponentPart(s) ==
  IF s = <<>> \/ Head(s) \notin {69, 101} THEN 0
  ELSE LET t      == Tail(s)
           signed == t # <<>> /\ Head(t) \in {43, 45}
           u      == IF signed THEN Tail(t) ELSE t
           n      == DigitsPrefix(u)
           v      == DigitsValue(SubSeq(u, 1, n))
           i      == IF v = <<>> THEN 0 ELSE v[1]
       IN  IF n = 0 THEN 0
           ELSE IF signed /\ Head(t) = 45 THEN -i ELSE i

\* parseFloat(string): white space, a sign, then "Infinity" or the longest
\* decimal literal; NaN where there is none.  Exponents below 2^15.
ParseFloat(string) ==
  LET s        == TrimStart(string)
      negative == s # <<>> /\ Head(s) = 45
      t        == IF s # <<>> /\ Head(s) \in {43, 45} THEN Tail(s) ELSE s
      int      == DigitsPrefix(t)
      afterInt == SubSeq(t, int + 1, Len(t))
      point    == afterInt # <<>> /\ Head(afterInt) = 46
      frac     == IF point THEN DigitsPrefix(Tail(afterInt)) ELSE 0
      rest     == SubSeq(t, int + (IF point THEN 1 ELSE 0) + frac + 1, Len(t))
      digits   == SubSeq(t, 1, int)
                    \o (IF point THEN SubSeq(afterInt, 2, frac + 1) ELSE <<>>)
  IN  IF Len(t) >= 8 /\ SubSeq(t, 1, 8) = <<73, 110, 102, 105, 110, 105, 116, 121>>
      THEN [k |-> "inf", neg |-> negative]
      ELSE IF int + frac = 0 THEN NaN
      ELSE DecimalValue(negative, DigitsValue(digits), ExponentPart(rest) - frac)

\* the decimal digits of a natural number
RECURSIVE BDigits(_)
BDigits(n) ==
  IF n = <<>> THEN <<>>
  ELSE Strict1(LAMBDA qr :
                 Append(BDigits(qr[1]), 48 + (IF qr[2] = <<>> THEN 0 ELSE qr[2][1])),
               BDivMod(n, <<10>>))

\* String(number) for the integers below 10^21, which is what the distances
\* of the route list are
NumberToString(x) ==
  IF IsZero(x) THEN <<48>>
  ELSE (IF x.neg THEN <<45>> ELSE <<>>) \o BDigits(BShl(x.m, x.e))

(***************************************************************************)
(* The page when the scripts have run: the fields are empty, nothing is    *)
(* checked, no result is shown; the distance field has a readonly          *)
(* attribute or has none, as the page's markup says.                       *)
(***************************************************************************)
SubmitLabel == "Calcular"
Spinner     == "<span class=\"spinner\" aria-hidden=\"true\"></span> Calculando..."

PageLoaded(readonly) ==
  /\ origemInput = <<>>
  /\ destinoInput = <<>>
  /\ distanciaInput = [value |-> <<>>, readonly |-> readonly]
  /\ manualCheckbox = [checked |-> FALSE, changed |-> FALSE]
  /\ helperText = "initial"
  /\ submitButton = [disabled |-> FALSE, innerHTML |-> SubmitLabel, originalText |-> ""]
  /\ classList = "initial"
  /\ timers = <<>>
  /\ rendered = Undefined
  /\ alerted = ""

(***************************************************************************)
(* The arguments callers pass.  Numbers are written as decimal literals.   *)
(***************************************************************************)
MaxCents == 12   \* distances 0.00, 0.01, ... km
MaxFives == 20   \* distances 0, 5, 10, ... km
MaxSavingsCents == 5
MaxPad   == 1    \* white space around a query string

Carro     == <<99, 97, 114, 114, 111>>
Bicicleta == <<98, 105, 99, 105, 99, 108, 101, 116, 97>>
Onibus    == <<111, 110, 105, 98, 117, 115>>
Caminhao  == <<99, 97, 109, 105, 110, 104, 97, 111>>

\* the upper-case mapping of one code unit (the letters of the city and mode names)
UpperUnit(c) ==
  IF c \in (97..122) \cup (224..246) \cup (248..254) THEN c - 32 ELSE c

ToUpperCase(s) == [i \in 1..Len(s) |-> UpperUnit(s[i])]

\* s with n white-space code units on each side
Pad(s, n) == [i \in 1..n |-> 32] \o s \o [i \in 1..n |-> IF i = 2 THEN 9 ELSE 32]

\* the spellings of s that differ in letter case and surrounding white space
Spellings(s) ==
  {s, ToUpperCase(s)} \cup {Pad(ToLowerCase(s), n) : n \in 1..MaxPad}

FiniteInputs ==
  {Dec(i, 2) : i \in 0..MaxCents} \cup {FromInt(5 * j) : j \in 0..MaxFives}
    \cup {FromInt(1), FromInt(12), FromInt(430), FromInt(1000)}

InvalidInputs ==
  {NaN, Infinity, NegInfinity, FromInt(-5), Str(<<49, 48, 48>>), Undefined, Null}

NumberInputs == FiniteInputs \cup InvalidInputs

SavingsInputs ==
  {Dec(i, 2) : i \in 0..MaxSavingsCents} \cup {FromInt(12), FromInt(15)}
    \cup InvalidInputs

ModeInputs ==
  {Str(s) : s \in {Carro, Bicicleta, Onibus, Caminhao}}
    \cup {Str(s) : s \in Spellings(Carro)}
    \cup {Str(<<97, 118, 105, 97, 111>>), Str(<<>>), Undefined}

\* the routes whose end points are queried: Sao Paulo-Rio, and the pairs stored twice
QueriedRoutes == {InitialRoutes[i] : i \in {1, 13, 15, 25, 32}}

QueriedCities ==
  {r.origin : r \in QueriedRoutes} \cup {r.destination : r \in QueriedRoutes}

CityInputs ==
  {Str(s) : s \in UNION {Spellings(c) : c \in QueriedCities}}
    \cup {Str(<<>>), Str(<<32>>), Str(<<65, 116, 108, 97, 110, 116, 105, 115>>),
          Undefined, Null}

Calls ==
  {[fn |-> "calculateEmission", args |-> <<d, m>>] : d \in NumberInputs, m \in ModeInputs}
    \cup {[fn |-> "calculateAllModes", args |-> <<d>>] : d \in NumberInputs}
    \cup {[fn |-> "calculateSavings", args |-> <<e, b>>] : e \in SavingsInputs, b \in SavingsInputs}
    \cup {[fn |-> "calculateCarbonCredits", args |-> <<e>>] : e \in NumberInputs}
    \cup {[fn |-> "estimateCreditPrice", args |-> <<c>>] : c \in NumberInputs}
    \cup {[fn |-> "findDistance", args |-> <<o, d>>] : o \in CityInputs, d \in CityInputs}
    \cup {[fn |-> "getAllCities", args |-> <<>>]}

NoCall == [fn |-> "none", args |-> <<>>]

NoMemo == [call |-> NoCall, result |-> Undefined, later |-> FALSE]

(***************************************************************************)
(* The state machine: the scripts are loaded, then callers call the        *)
(* functions, one call at a time (JavaScript runs each to completion).     *)
(***************************************************************************)
Init ==
  /\ EMISSION_FACTORS = InitialEmissionFactors
  /\ CARBON_CREDIT = InitialCarbonCredit
  /\ routes = InitialRoutes
  /\ pc = "idle"
  /\ call = NoCall
  /\ result = Undefined
  /\ memo = NoMemo
  /\ PageLoaded(FALSE)

\* a caller calls one of the functions
Invoke ==
  /\ pc = "idle"
  /\ \E c \in Calls : call' = c
  /\ pc' = "called"
  /\ UNCHANGED <<EMISSION_FACTORS, CARBON_CREDIT, routes, result, memo, page>>

Returns(fn, value) ==
  /\ pc = "called"
  /\ call.fn = fn
  /\ result' = value
  /\ pc' = "returned"
  /\ UNCHANGED <<EMISSION_FACTORS, CARBON_CREDIT, routes, call, memo, page>>

CalculateEmission ==
  Returns("calculateEmission", calculateEmission(call.args[1], call.args[2]))

CalculateAllModes ==
  Returns("calculateAllModes", calculateAllModes(call.args[1]))

CalculateSavings ==
  Returns("calculateSavings", calculateSavings(call.args[1], call.args[2]))

CalculateCarbonCredits ==
  Returns("calculateCarbonCredits", calculateCarbonCredits(call.args[1]))

EstimateCreditPrice ==
  Returns("estimateCreditPrice", estimateCreditPrice(call.args[1]))

FindDistance ==
  Returns("findDistance", findDistance(call.args[1], call.args[2]))

\* a getAllCities that reverses the route list it reads
GetAllCitiesReversingRoutes ==
  /\ pc = "called"
  /\ call.fn = "getAllCities"
  /\ result' = getAllCities
  /\ routes' = [i \in 1..Len(routes) |-> routes[Len(routes) + 1 - i]]
  /\ pc' = "returned"
  /\ UNCHANGED <<EMISSION_FACTORS, CARBON_CREDIT, call, memo, page>>

GetAllCities ==
  Returns("getAllCities", getAllCities)

\* the caller has used the result; a kept result is now an earlier one
Resume ==
  /\ pc = "returned"
  /\ pc' = "idle"
  /\ call' = NoCall
  /\ result' = Undefined
  /\ memo' = IF memo = NoMemo THEN memo ELSE [memo EXCEPT !.later = TRUE]
  /\ UNCHANGED <<EMISSION_FACTORS, CARBON_CREDIT, routes, page>>

Next ==
  \/ Invoke
  \/ CalculateEmission
  \/ CalculateAllModes
  \/ CalculateSavings
  \/ CalculateCarbonCredits
  \/ EstimateCreditPrice
  \/ FindDistance
  \/ GetAllCities
  \/ Resume

Spec == Init /\ [][Next]_vars


(***************************************************************************)
(* The same functions under a caller that calls a few calls again and      *)
(* again and keeps one earlier result to compare with.                     *)
(***************************************************************************)
RepeatedCalls ==
  {[fn |-> "calculateEmission", args |-> <<FromInt(5), Str(Onibus)>>],
   [fn |-> "calculateEmission", args |-> <<FromInt(100), Str(ToUpperCase(Carro))>>],
   [fn |-> "calculateAllModes", args |-> <<Dec(5, 2)>>],
   [fn |-> "calculateAllModes", args |-> <<FromInt(430)>>],
   [fn |-> "calculateSavings", args |-> <<Dec(5, 2), FromInt(12)>>],
   [fn |-> "calculateCarbonCredits", args |-> <<FromInt(430)>>],
   [fn |-> "estimateCreditPrice", args |-> <<Dec(5, 2)>>],
   [fn |-> "findDistance",
    args |-> <<Str(InitialRoutes[32].origin), Str(InitialRoutes[32].destination)>>],
   [fn |-> "findDistance",
    args |-> <<Str(InitialRoutes[25].origin), Str(InitialRoutes[25].destination)>>],
   [fn |-> "findDistance", args |-> <<Str(<<>>), Str(InitialRoutes[1].origin)>>],
   [fn |-> "getAllCities", args |-> <<>>]}

\* a caller calls one of the repeated calls
InvokeAgain ==
  /\ pc = "idle"
  /\ \E c \in RepeatedCalls : call' = c
  /\ pc' = "called"
  /\ UNCHANGED <<EMISSION_FACTORS, CARBON_CREDIT, routes, result, memo, page>>

\* the caller keeps the call and its result
Remember ==
  /\ pc = "returned"
  /\ memo' = [call |-> call, result |-> result, later |-> FALSE]
  /\ pc' = "idle"
  /\ call' = NoCall
  /\ result' = Undefined
  /\ UNCHANGED <<EMISSION_FACTORS, CARBON_CREDIT, routes, page>>

NextRepeat ==
  \/ InvokeAgain
  \/ CalculateEmission
  \/ CalculateAllModes
  \/ CalculateSavings
  \/ CalculateCarbonCredits
  \/ EstimateCreditPrice
  \/ FindDistance
  \/ GetAllCities
  \/ Remember
  \/ Resume

SpecRepeat == Init /\ [][NextRepeat]_vars

(***************************************************************************)
(* The distance auto-fill (CONFIG.setupDistanceAutoFill): the listeners    *)
(* of the origin field, the destination field and the manual-entry         *)
(* checkbox, each run to completion on a change event.                     *)
(***************************************************************************)
SaoPaulo     == InitialRoutes[1].origin
RioDeJaneiro == InitialRoutes[1].destination
Atlantis     == <<65, 116, 108, 97, 110, 116, 105, 115>>

\* what the user leaves in the origin and destination fields
OrigemValues  == {<<>>, <<32>>, SaoPaulo, Pad(ToLowerCase(SaoPaulo), 1), Atlantis}
DestinoValues == {<<>>, RioDeJaneiro, ToUpperCase(RioDeJaneiro), SaoPaulo}

\* what the user types into the distance field
DistanciaValues == {<<>>, <<49, 50, 46, 53>>, <<97, 98, 99>>}

\* autoFillDistance, given the trimmed field values: the distance field and
\* the helper text it leaves
autoFillDistance(origem, destino) ==
  IF Falsy(Str(origem)) \/ Falsy(Str(destino))
  THEN [distancia |-> [distanciaInput EXCEPT !.value = <<>>],
        helper |-> helperText]
  ELSE Strict1(LAMBDA distance :
                 IF distance # Null
                 THEN [distancia |-> [value |-> NumberToString(distance),
                                      readonly |-> TRUE],
                       helper |-> "found"]
                 ELSE [distancia |-> [value |-> <<>>, readonly |-> TRUE],
                       helper |-> "notFound"],
               findDistance(Str(origem), Str(destino)))

\* the fields after autoFillDistance has run on the values o and d
AutoFilled(o, d) ==
  /\ distanciaInput' = autoFillDistance(Trim(o), Trim(d)).distancia
  /\ helperText' = autoFillDistance(Trim(o), Trim(d)).helper

\* the user changes the origin field: its change listener
OrigemChange ==
  \E v \in OrigemValues :
    /\ v # origemInput
    /\ origemInput' = v
    /\ IF ~manualCheckbox.checked
       THEN AutoFilled(v, destinoInput)
       ELSE UNCHANGED <<distanciaInput, helperText>>
    /\ UNCHANGED <<destinoInput, manualCheckbox>>
    /\ UNCHANGED <<EMISSION_FACTORS, CARBON_CREDIT, routes, pc, call, result, memo, form>>

\* the user changes the destination field: its change listener
DestinoChange ==
  \E v \in DestinoValues :
    /\ v # destinoInput
    /\ destinoInput' = v
    /\ IF ~manualCheckbox.checked
       THEN AutoFilled(origemInput, v)
       ELSE UNCHANGED <<distanciaInput, helperText>>
    /\ UNCHANGED <<origemInput, manualCheckbox>>
    /\ UNCHANGED <<EMISSION_FACTORS, CARBON_CREDIT, routes, pc, call, result, memo, form>>

\* the user clicks the manual-entry checkbox: its change listener
ManualChange ==
  /\ manualCheckbox' = [checked |-> ~manualCheckbox.checked, changed |-> TRUE]
  /\ IF manualCheckbox'.checked
     THEN /\ distanciaInput' = [value |-> <<>>, readonly |-> FALSE]
          /\ helperText' = "manual"
     ELSE AutoFilled(origemInput, destinoInput)
  /\ UNCHANGED <<origemInput, destinoInput>>
  /\ UNCHANGED <<EMISSION_FACTORS, CARBON_CREDIT, routes, pc, call, result, memo, form>>

\* the user types into the distance field, which a readonly field refuses
DistanciaInput ==
  \E v \in DistanciaValues :
    /\ ~distanciaInput.readonly
    /\ v # distanciaInput.value
    /\ distanciaInput' = [distanciaInput EXCEPT !.value = v]
    /\ UNCHANGED <<origemInput, destinoInput, manualCheckbox, helperText>>
    /\ UNCHANGED <<EMISSION_FACTORS, CARBON_CREDIT, routes, pc, call, result, memo, form>>

NextAutoFill ==
  \/ OrigemChange
  \/ DestinoChange
  \/ ManualChange
  \/ DistanciaInput

\* the scripts are loaded; the markup of the distance field is either
InitAutoFill ==
  /\ EMISSION_FACTORS = InitialEmissionFactors
  /\ CARBON_CREDIT = InitialCarbonCredit
  /\ routes = InitialRoutes
  /\ pc = "idle"
  /\ call = NoCall
  /\ result = Undefined
  /\ memo = NoMemo
  /\ \E readonly \in BOOLEAN : PageLoaded(readonly)

SpecAutoFill == InitAutoFill /\ [][NextAutoFill]_vars


(***************************************************************************)
(* The form submit (App._onFormSubmit): the handler validates the fields,  *)
(* puts the button in the loading state, hides the result sections and     *)
(* leaves the calculation to a timer callback 1500 ms later.  Callbacks    *)
(* of equal delay fire in the order they were scheduled.                   *)
(***************************************************************************)
MaxTimers == 2   \* timer callbacks pending at once

AlertCities   == "Por favor preencha origem e destino."
AlertDistance == "Distancia invalida."
AlertMode     == "Selecione o meio de transporte."
AlertError    == "Ocorreu um erro ao calcular as emissoes. Tente novamente."

\* what the fields hold when the user submits
SubmitOrigins      == {<<>>, <<32>>, Pad(SaoPaulo, 1)}
SubmitDestinations == {<<>>, RioDeJaneiro}
SubmitDistances    ==
  {<<>>, <<97, 98, 99>>, <<48>>, <<45, 53>>, <<49, 50, 46, 53>>, <<52, 51, 48>>}
SubmitModes        == {<<>>, Onibus}

\* a <= b on Numbers
LessOrEqual(a, b) == a # NaN /\ b # NaN /\ ~FLess(b, a)

\* the mutant of the validation that accepts a submit with no mode selected
ValidateFieldsOnly(origin, destination, distanceKm, transportMode) ==
  IF Falsy(Str(origin)) \/ Falsy(Str(destination)) THEN AlertCities
  ELSE IF Falsy(distanceKm) \/ LessOrEqual(distanceKm, Zero) THEN AlertDistance
  ELSE ""

\* the basic validation: the alert it raises, "" when the fields pass
Validate(origin, destination, distanceKm, transportMode) ==
  IF Falsy(Str(origin)) \/ Falsy(Str(destination)) THEN AlertCities
  ELSE IF Falsy(distanceKm) \/ LessOrEqual(distanceKm, Zero) THEN AlertDistance
  ELSE IF Falsy(Str(transportMode)) THEN AlertMode
  ELSE ""

\* the mutant of UI.showLoading that saves the label on every call
showLoadingSavingEveryTime(buttonElement) ==
  [disabled |-> TRUE, innerHTML |-> Spinner,
   originalText |-> buttonElement.innerHTML]

\* UI.showLoading: the label is saved unless one is saved already
showLoading(buttonElement) ==
  [disabled |-> TRUE, innerHTML |-> Spinner,
   originalText |-> IF buttonElement.originalText = ""
                    THEN buttonElement.innerHTML
                    ELSE buttonElement.originalText]

\* UI.hideLoading: the saved label, if any, is put back and forgotten
hideLoading(buttonElement) ==
  IF buttonElement.originalText # ""
  THEN [disabled |-> FALSE, innerHTML |-> buttonElement.originalText,
        originalText |-> ""]
  ELSE [buttonElement EXCEPT !.disabled = FALSE]

\* the handler, run on the field values the user submits
SubmitWith(originValue, destinationValue, distanceRaw, transportValue) ==
  LET origin      == Trim(originValue)
      destination == Trim(destinationValue)
      parsed      == ParseFloat(distanceRaw)
      distanceKm  == IF parsed = NaN THEN Zero ELSE parsed
      message     == Validate(origin, destination, distanceKm, transportValue)
  IN  /\ IF message # ""
         THEN /\ alerted' = message
              /\ UNCHANGED <<submitButton, classList, timers, rendered>>
         ELSE /\ Len(timers) < MaxTimers
              /\ alerted' = ""
              /\ submitButton' = showLoading(submitButton)
              /\ classList' = "hidden"
              /\ timers' = Append(timers, [origin |-> origin,
                                           destination |-> destination,
                                           distanceKm |-> distanceKm,
                                           transportMode |-> transportValue])
              /\ UNCHANGED rendered
      /\ UNCHANGED <<EMISSION_FACTORS, CARBON_CREDIT, routes, pc, call, result, memo, autoFill>>

\* the user submits the form
Submit ==
  \E o \in SubmitOrigins, d \in SubmitDestinations,
     raw \in SubmitDistances, t \in SubmitModes : SubmitWith(o, d, raw, t)

\* what the timer callback calculates from the values it closed over
Calculated(closure) ==
  Strict2(LAMBDA emissionKg, carEmissionKg :
            Strict1(LAMBDA credits :
                      [results |-> [origin |-> closure.origin,
                                    destination |-> closure.destination,
                                    distance |-> closure.distanceKm,
                                    emission |-> emissionKg,
                                    mode |-> closure.transportMode,
                                    savings |-> calculateSavings(emissionKg, carEmissionKg)],
                       comparison |-> calculateAllModes(closure.distanceKm),
                       credits |-> [credits |-> credits,
                                    price |-> estimateCreditPrice(credits)]],
                    calculateCarbonCredits(emissionKg)),
          calculateEmission(closure.distanceKm, Str(closure.transportMode)),
          calculateEmission(closure.distanceKm, Str(Carro)))

\* the oldest timer fires.  Its callback renders and shows the results, or,
\* when the try block throws (Calculator is not loaded), alerts; either way
\* it ends with UI.hideLoading.
TimerFires ==
  \E threw \in BOOLEAN :
    /\ timers # <<>>
    /\ timers' = Tail(timers)
    /\ IF threw
       THEN /\ alerted' = AlertError
            /\ UNCHANGED <<classList, rendered>>
       ELSE /\ alerted' = ""
            /\ rendered' = Calculated(Head(timers))
            /\ classList' = "shown"
    /\ submitButton' = hideLoading(submitButton)
    /\ UNCHANGED <<EMISSION_FACTORS, CARBON_CREDIT, routes, pc, call, result, memo, autoFill>>

NextSubmit ==
  \/ Submit
  \/ TimerFires

SpecSubmit == Init /\ [][NextSubmit]_vars


(***************************************************************************)
(* Exact arithmetic, for stating what a result has to be: a finite double  *)
(* is the rational m * 2^e, a decimal with p places is K / 10^p.           *)
(***************************************************************************)
\* numerator and denominator of |x| for a finite double x
ExactNum(x) == BShl(x.m, Max(x.e, 0))

ExactDen(x) == BShl(<<1>>, Max(-x.e, 0))

\* the double that the decimal K / 10^p denotes, K a natural number
DecBig(K, p) == FDiv(Pack(FALSE, K, 0, FALSE), FromInt(10^p))

\* r is num / den rounded to p decimal places: r is K / 10^p for an integer K
\* nearest to num * 10^p / den, where a value within 2^-21 of a tie may go
\* either way (a tie is decided on the floating-point product, not on the
\* exact one)
IsRounding(r, num, den, p) ==
  Strict2(LAMBDA qr, slack :
            \/ /\ BCmp(BShl(qr[2], 21), slack) <= 0
               /\ r = DecBig(qr[1], p)
            \/ /\ BCmp(BShl(BSub(den, qr[2]), 21), slack) <= 0
               /\ r = DecBig(BAdd(qr[1], <<1>>), p),
          BDivMod(BMul(num, BFromInt(10^p)), den),
          BAdd(BShl(den, 20), den))

\* a finite number >= 0
IsNonNegative(x) == x.k = "num" /\ (~x.neg \/ x.m = <<>>)

\* a number < 0
IsNegative(x) == x.k \in {"num", "inf"} /\ x.neg /\ ~IsZero(x)

\* not a number: NaN, a string, undefined, null
IsNonNumeric(x) == x.k \in {"nan", "str", "undefined", "null"}

\* the call of fn has returned and its result is in result
Returned(fn) == pc = "returned" /\ call.fn = fn

(***************************************************************************)
(* Properties of Calculator.calculateAllModes and calculateEmission.       *)
(***************************************************************************)
\* the entries of a calculateAllModes result for the car mode
CarEntries(res) == {res[i] : i \in {j \in 1..Len(res) : res[j].mode = Carro}}

NumericFields ==
  IF call.fn \in {"calculateEmission", "calculateCarbonCredits"} THEN {result}
  ELSE IF call.fn = "calculateAllModes"
  THEN {result[i].emission : i \in 1..Len(result)}
         \cup {result[i].percentageVsCar : i \in 1..Len(result)}
  ELSE IF call.fn = "calculateSavings" THEN {result.savedKg, result.percentage}
  ELSE IF call.fn = "estimateCreditPrice"
  THEN {result.min, result.max, result.average}
  ELSE {}

\* C2, as stated: for an input of any shape (finite, negative, NaN, infinite,
\* string, undefined, null) every numeric field that calculateEmission,
\* calculateAllModes, calculateSavings, calculateCarbonCredits and
\* estimateCreditPrice return is a finite number, never NaN and never null;
\* an input that cannot be computed (negative or not a number) yields 0.
C2_EveryNumericFieldIsFinite ==
  pc = "returned" /\ call.fn # "findDistance"
    => /\ \A v \in NumericFields : IsFinite(v)
       /\ (/\ call.fn \in {"calculateEmission", "calculateCarbonCredits",
                            "estimateCreditPrice"}
           /\ IsNegative(call.args[1]) \/ IsNonNumeric(call.args[1]))
            => \A v \in NumericFields : v = Zero

\* C3, as stated: calculateEmission(distanceKm, mode) is distanceKm * factor
\* rounded to 2 decimals when distanceKm is a non-negative number and the
\* trimmed, lower-cased mode is a key of the factor table, and 0 in every
\* other case; it is 12 for (100, carro), 0 for (100, bicicleta), 0 for
\* distance 0 with every valid mode and 0 for (-5, carro).  (An infinite
\* distance, which has no 2-decimal rounding, is left open.)
C3_EmissionIsRoundedProductOrZero ==
  Returned("calculateEmission") /\ call.args[1] # Infinity
    => LET d   == call.args[1]
           key == ToLowerCase(Trim(String(call.args[2])))
       IN  /\ IF IsNonNegative(d) /\ HasOwnProperty(EMISSION_FACTORS, key)
              THEN LET f == Get(EMISSION_FACTORS, key)
                   IN  IsRounding(result, BMul(ExactNum(d), ExactNum(f)),
                                  BMul(ExactDen(d), ExactDen(f)), 2)
              ELSE result = Zero
           /\ d = FromInt(100) /\ key = Carro => result = FromInt(12)
           /\ d = FromInt(100) /\ key = Bicicleta => result = Zero
           /\ d = Zero /\ HasOwnProperty(EMISSION_FACTORS, key) => result = Zero
           /\ d = FromInt(-5) /\ key = Carro => result = Zero

\* the position of a mode in the iteration order of the factor table
KeyIndex(mode) ==
  CHOOSE i \in 1..Len(EMISSION_FACTORS) : EMISSION_FACTORS[i].key = mode

\* C4: calculateAllModes(d), for every non-negative number d, returns exactly
\* one entry per mode of the factor table (none missing, none repeated), in
\* ascending order of emission, and entries of equal emission are in the
\* factor table's iteration order.
C4_OneEntryPerModeAscendingStable ==
  Returned("calculateAllModes")
    /\ (IsNonNegative(call.args[1]) \/ call.args[1] = Infinity)
    => /\ Len(result) = Len(EMISSION_FACTORS)
       /\ \A i \in 1..Len(EMISSION_FACTORS) :
            \E j \in 1..Len(result) : result[j].mode = EMISSION_FACTORS[i].key
       /\ \A i, j \in 1..Len(result) :
            i < j => /\ result[i].mode # result[j].mode
                     /\ ~FLess(result[j].emission, result[i].emission)
                     /\ result[i].emission = result[j].emission
                          => KeyIndex(result[i].mode) < KeyIndex(result[j].mode)

\* calculateAllModes(0.05) has returned: the bus (0) has moved before the car
\* (0.01) and stays behind the bicycle (0), its equal
C4_BusTiesWithBicycle ==
  /\ Returned("calculateAllModes")
  /\ call.args[1] = Dec(5, 2)
  /\ result[1].mode = Bicicleta /\ result[2].mode = Onibus
  /\ result[1].emission = result[2].emission
  /\ result[3].mode = Carro /\ result[4].mode = Caminhao

(***************************************************************************)
(* Properties of RoutesDB.findDistance.                                    *)
(***************************************************************************)
\* C5: findDistance is symmetric: findDistance(A, B) and findDistance(B, A)
\* return the same value (the same distance, or both null), also for the
\* city pairs that the route list stores twice with different distances.
C5_FindDistanceIsSymmetric ==
  Returned("findDistance")
    => result = findDistance(call.args[2], call.args[1])

\* findDistance(Natal, Fortaleza) has returned 530: the pair is stored as
\* Fortaleza -> Natal (530) and later as Natal -> Fortaleza (535)
C5_NatalToFortaleza ==
  /\ Returned("findDistance")
  /\ call.args = <<Str(routes[13].destination), Str(routes[13].origin)>>
  /\ call.args = <<Str(routes[32].origin), Str(routes[32].destination)>>
  /\ routes[32].distanceKM # routes[13].distanceKM
  /\ result = routes[13].distanceKM

\* an argument that is missing, empty or white space only
Blank(v) == v.k # "str" \/ \A i \in 1..Len(v.s) : v.s[i] \in WhiteSpace

\* route r joins the cities that the strings a and b spell, in either direction
Joins(r, a, b) ==
  \/ a \in Spellings(r.origin) /\ b \in Spellings(r.destination)
  \/ a \in Spellings(r.destination) /\ b \in Spellings(r.origin)

\* C6: findDistance returns null (not 0) whenever origin or destination is
\* empty or blank or no stored route matches the pair in either direction,
\* and returns a number only when some stored route matches: then the number
\* is the distance of such a route.
C6_NullUnlessSomeRouteMatches ==
  Returned("findDistance")
    => LET a == call.args[1]
           b == call.args[2]
           matching == IF Blank(a) \/ Blank(b) THEN {}
                       ELSE {i \in 1..Len(routes) : Joins(routes[i], a.s, b.s)}
       IN  /\ matching = {} => result = Null
           /\ result # Null => \E i \in matching : result = routes[i].distanceKM

\* findDistance(" ", "Rio de Janeiro, RJ") has returned null
C6_BlankOrigin ==
  /\ Returned("findDistance")
  /\ call.args = <<Str(<<32>>), Str(routes[1].destination)>>
  /\ result = Null

\* C7: findDistance ignores letter case and leading and trailing white space
\* in both arguments: for every stored route (A, B, d) a query whose
\* arguments are A and B in another case or with surrounding white space
\* returns what the exact query (A, B) returns; the query
\* (" são paulo, sp ", "RIO DE JANEIRO, RJ") returns 430.
C7_IgnoresCaseAndSurroundingSpace ==
  Returned("findDistance") /\ call.args[1].k = "str" /\ call.args[2].k = "str"
    => /\ \A i \in 1..Len(routes) :
            /\ call.args[1].s \in Spellings(routes[i].origin)
            /\ call.args[2].s \in Spellings(routes[i].destination)
            => result = findDistance(Str(routes[i].origin), Str(routes[i].destination))
       /\ call.args = <<Str(Pad(ToLowerCase(routes[1].origin), 1)),
                        Str(ToUpperCase(routes[1].destination))>>
            => result = FromInt(430)

\* findDistance(" são paulo, sp ", "RIO DE JANEIRO, RJ") has returned 430
C7_PaddedLowerAndUpperQuery ==
  /\ Returned("findDistance")
  /\ call.args = <<Str(Pad(ToLowerCase(routes[1].origin), 1)),
                   Str(ToUpperCase(routes[1].destination))>>
  /\ call.args[1].s # routes[1].origin
  /\ call.args[2].s # routes[1].destination
  /\ result = FromInt(430)

(***************************************************************************)
(* Properties of calculateSavings, calculateCarbonCredits and              *)
(* estimateCreditPrice.                                                    *)
(***************************************************************************)
\* a negative or non-numeric input counts as 0
Clamped(x) == IF IsNegative(x) \/ IsNonNumeric(x) THEN Zero ELSE x

\* C8, as stated: calculateSavings(emission, baseline) clamps each negative or
\* non-numeric input to 0, then returns savedKg = max(0, baseline - emission)
\* and percentage = savedKg / baseline * 100 when baseline > 0, else 0, both
\* rounded to 2 decimals; for all inputs savedKg >= 0 and
\* 0 <= percentage <= 100; calculateSavings(15, 12) is {0, 0}.
C8_SavingsAreClampedAndInRange ==
  Returned("calculateSavings")
    => LET e == Clamped(call.args[1])
           b == Clamped(call.args[2])
       IN  /\ IsNonNegative(result.savedKg)
           /\ IsNonNegative(result.percentage)
           /\ ~FLess(FromInt(100), result.percentage)
           /\ IsFinite(e) /\ IsFinite(b)
                => LET den  == BMul(ExactDen(b), ExactDen(e))
                       bNum == BMul(ExactNum(b), ExactDen(e))
                       eNum == BMul(ExactNum(e), ExactDen(b))
                       save == IF BCmp(bNum, eNum) > 0 THEN BSub(bNum, eNum) ELSE <<>>
                   IN  /\ IsRounding(result.savedKg, save, den, 2)
                       /\ IF IsZero(b) THEN result.percentage = Zero
                          ELSE IsRounding(result.percentage,
                                          BMulSmall(save, 100), bNum, 2)
           /\ call.args = <<FromInt(15), FromInt(12)>>
                => result = [savedKg |-> Zero, percentage |-> Zero]

\* C9, as stated: calculateCarbonCredits(emissionKg) is emissionKg /
\* kgPerCredit rounded to 4 decimals for every non-negative number emissionKg
\* and 0 for a negative or non-numeric input; with kgPerCredit = 1000,
\* calculateCarbonCredits(1000) is 1.
C9_CreditsAreRoundedQuotientOrZero ==
  Returned("calculateCarbonCredits")
    => LET x  == call.args[1]
           kg == CARBON_CREDIT.KG_PER_CREDIT
       IN  /\ IsNonNegative(x)
                => IsRounding(result, BMul(ExactNum(x), ExactDen(kg)),
                              BMul(ExactDen(x), ExactNum(kg)), 4)
           /\ IsNegative(x) \/ IsNonNumeric(x) => result = Zero
           /\ x = FromInt(1000) /\ kg = FromInt(1000) => result = FromInt(1)

\* C10, as stated: estimateCreditPrice(credits) is, for every non-negative
\* number credits, min = credits * priceMin, max = credits * priceMax and
\* average = (min + max) / 2, each rounded to 2 decimals, and {0, 0, 0} for
\* negative or non-numeric credits; with prices 50 and 150,
\* estimateCreditPrice(1) is {50, 150, 100}.
C10_PricesAreRoundedProductsOrZero ==
  Returned("estimateCreditPrice")
    => LET c  == call.args[1]
           lo == CARBON_CREDIT.PRICE_MIN_BRL
           hi == CARBON_CREDIT.PRICE_MAX_BRL
       IN  /\ IsNonNegative(c)
                => /\ IsRounding(result.min, BMul(ExactNum(c), ExactNum(lo)),
                                 BMul(ExactDen(c), ExactDen(lo)), 2)
                   /\ IsRounding(result.max, BMul(ExactNum(c), ExactNum(hi)),
                                 BMul(ExactDen(c), ExactDen(hi)), 2)
                   /\ IsRounding(result.average,
                                 BMul(ExactNum(c),
                                      BAdd(BMul(ExactNum(lo), ExactDen(hi)),
                                           BMul(ExactNum(hi), ExactDen(lo)))),
                                 BMulSmall(BMul(ExactDen(c),
                                                BMul(ExactDen(lo), ExactDen(hi))), 2),
                                 2)
           /\ IsNegative(c) \/ IsNonNumeric(c)
                => result = [min |-> Zero, max |-> Zero, average |-> Zero]
           /\ c = FromInt(1) /\ lo = FromInt(50) /\ hi = FromInt(150)
                => result = [min |-> FromInt(50), max |-> FromInt(150),
                             average |-> FromInt(100)]

(***************************************************************************)
(* Further properties of RoutesDB.                                         *)
(***************************************************************************)
\* the indices of the stored routes that join the cities of the current
\* findDistance query, in either direction
MatchingRoutes ==
  IF Blank(call.args[1]) \/ Blank(call.args[2]) THEN {}
  ELSE {i \in 1..Len(routes) : Joins(routes[i], call.args[1].s, call.args[2].s)}

\* the smallest element of a non-empty set of indices
Smallest(S) == CHOOSE i \in S : \A j \in S : i <= j

\* C13: when the route list holds several entries for the same unordered
\* city pair, findDistance returns the distance of the entry with the
\* smallest list index that matches in either direction, whatever the
\* direction of the query; (Fortaleza, Natal) and (Natal, Fortaleza) both
\* return 530, never the later stored 535.
C13_FirstMatchingRouteWins ==
  Returned("findDistance")
    => /\ MatchingRoutes # {}
            => result = routes[Smallest(MatchingRoutes)].distanceKM
       /\ call.args \in {<<Str(routes[13].origin), Str(routes[13].destination)>>,
                         <<Str(routes[13].destination), Str(routes[13].origin)>>}
            => result = FromInt(530) /\ result # routes[32].distanceKM

\* findDistance("NATAL, RN", "FORTALEZA, CE") has returned 530: routes 13 and
\* 32 both match, and route 32, stored in the direction of the query, says 535
C13_LaterDuplicateIgnored ==
  /\ Returned("findDistance")
  /\ call.args = <<Str(ToUpperCase(routes[32].origin)),
                   Str(ToUpperCase(routes[32].destination))>>
  /\ MatchingRoutes = {13, 32}
  /\ routes[32].distanceKM = FromInt(535)
  /\ result = FromInt(530)

\* the city names of the route list
StoredCities ==
  {routes[i].origin : i \in 1..Len(routes)}
    \cup {routes[i].destination : i \in 1..Len(routes)}

\* C12: getAllCities returns a sequence that contains every origin and every
\* destination of every stored route, contains nothing else, contains no
\* name twice, and is in sorted order under the collation used.
C12_AllCitiesOnceInCollationOrder ==
  Returned("getAllCities")
    => /\ {result[i] : i \in 1..Len(result)} = StoredCities
       /\ \A i, j \in 1..Len(result) :
            i < j => /\ result[i] # result[j]
                     /\ LocaleCompare(result[i], result[j]) <= 0

\* getAllCities has returned the cities of the route list; "Belém, PA" is
\* right before "Belo Horizonte, MG", where code-unit order has them reversed
C12_BelemBeforeBeloHorizonte ==
  /\ Returned("getAllCities")
  /\ Len(result) = Cardinality(StoredCities)
  /\ Len(result) < 2 * Len(routes)
  /\ \E i \in 1..(Len(result) - 1) :
       /\ result[i] = routes[25].origin
       /\ result[i + 1] = routes[6].origin
       /\ result[i][4] > result[i + 1][4]

(***************************************************************************)
(* Frame property of the Calculator and RoutesDB functions.                *)
(***************************************************************************)
\* C11: after any sequence of calls to calculateEmission, calculateAllModes,
\* calculateSavings, calculateCarbonCredits, estimateCreditPrice,
\* findDistance and getAllCities the factor table, the route list (contents
\* and order) and the credit price constants are unchanged, and a call
\* repeated with identical inputs returns the result it returned before.
C11_TablesUnchangedAndCallsRepeatable ==
  /\ EMISSION_FACTORS = InitialEmissionFactors
  /\ routes = InitialRoutes
  /\ CARBON_CREDIT = InitialCarbonCredit
  /\ pc = "returned" /\ memo.call = call => result = memo.result

\* findDistance(Natal, Fortaleza) has returned 530 a second time, and other
\* calls have returned since the first time
C11_SecondLookupAfterOtherCalls ==
  /\ pc = "returned"
  /\ call.fn = "findDistance"
  /\ call.args = <<Str(routes[32].origin), Str(routes[32].destination)>>
  /\ memo.call = call
  /\ memo.later
  /\ memo.result = FromInt(530)
  /\ result = memo.result


(***************************************************************************)
(* The distance auto-fill and the form submit.                             *)
(***************************************************************************)
\* the step is a change event of the origin or the destination field
OrigemOrDestinoChanges ==
  origemInput' # origemInput \/ destinoInput' # destinoInput

\* C16: once the manual-entry checkbox has had a change event, the distance
\* field is editable (has no readonly attribute) exactly when the checkbox is
\* checked, and while the checkbox is checked a change of the origin or the
\* destination leaves the distance value as it is.
C16_EditableIffManualChecked ==
  /\ [](manualCheckbox.changed =>
          (~distanciaInput.readonly <=> manualCheckbox.checked))
  /\ [][manualCheckbox.checked /\ OrigemOrDestinoChanges
          => distanciaInput'.value = distanciaInput.value]_vars

\* the distance texts that denote a number above zero
PositiveDistances == {<<49, 50, 46, 53>>, <<52, 51, 48>>}

\* the submitted fields that the validation is to refuse
Invalid(o, d, raw, t) ==
  \/ Blank(Str(o))
  \/ Blank(Str(d))
  \/ raw \notin PositiveDistances
  \/ t = <<>>

\* the button is in the loading state
Loading == submitButton.disabled /\ submitButton.innerHTML = Spinner

\* C14: a submit that passes the validation leaves the button disabled with
\* the spinner label, also when an earlier timer is still pending; and
\* whenever no timer is pending the button is enabled and shows its original
\* label, whether the callbacks rendered their results or threw.
C14_LoadingUntilAllTimersFired ==
  /\ [][\A o \in SubmitOrigins, d \in SubmitDestinations,
           raw \in SubmitDistances, t \in SubmitModes :
          SubmitWith(o, d, raw, t) /\ ~Invalid(o, d, raw, t) => Loading']_vars
  /\ [](timers = <<>> =>
          ~submitButton.disabled /\ submitButton.innerHTML = SubmitLabel)

\* C14: two submits overlapped, the first callback rendered its results, the
\* second threw, and the button is back to its label
C14_RestoredAfterOverlappingSubmits ==
  /\ timers = <<>>
  /\ classList = "shown"
  /\ alerted = AlertError
  /\ ~submitButton.disabled
  /\ submitButton.innerHTML = SubmitLabel

\* a distance and a mode the Calculator is called with by the form
CalledWith(distanceKm, transportMode) ==
  FLess(Zero, distanceKm) /\ transportMode # <<>>

\* C15: a submit with an empty origin or destination, a distance that is not
\* a number or is at most 0, or no mode selected raises an alert and changes
\* neither the button, the result sections nor the pending timers; so every
\* pending callback, and every result rendered, has a distance above 0 and a
\* mode.
C15_InvalidSubmitOnlyAlerts ==
  /\ [][\A o \in SubmitOrigins, d \in SubmitDestinations,
           raw \in SubmitDistances, t \in SubmitModes :
          SubmitWith(o, d, raw, t) /\ Invalid(o, d, raw, t)
            => /\ alerted' \in {AlertCities, AlertDistance, AlertMode}
               /\ UNCHANGED <<submitButton, classList, timers, rendered>>]_vars
  /\ [](/\ \A i \in 1..Len(timers) :
             CalledWith(timers[i].distanceKm, timers[i].transportMode)
        /\ rendered # Undefined =>
             CalledWith(rendered.results.distance, rendered.results.mode))

\* C15: results are shown, a submit with an invalid distance has raised its
\* alert, and the results are still shown and the button still enabled
C15_AlertedWithResultsStillShown ==
  /\ alerted = AlertDistance
  /\ classList = "shown"
  /\ rendered # Undefined
  /\ timers = <<>>
  /\ ~submitButton.disabled

====
